---- MODULE Spec2Model ----
(***************************************************************************)
(* Model of the ClickUp MCP adapter (src/src/index.ts, latest revision,    *)
(* lines 217-456): the HTTP client wrapper `api`, the tool handlers and    *)
(* the upstream REST service they talk to.                                 *)
(*                                                                         *)
(* JavaScript values are tagged records, strings are sequences of          *)
(* one-character strings, so that truthiness, Number(), String(),          *)
(* encodeURIComponent and JSON.stringify are computed, not assumed.        *)
(***************************************************************************)
EXTENDS Integers, Sequences, FiniteSets, TLC

VARIABLES DEFAULT_TEAM, tasks, spaces, last, hier

vars == <<DEFAULT_TEAM, tasks, spaces, last, hier>>

(***************************************************************************)
(* JavaScript values                                                       *)
(***************************************************************************)
Undefined == [t |-> "undefined"]
Null == [t |-> "null"]
NaN == [t |-> "nan"]
Num(n) == [t |-> "number", v |-> n]
Str(s) == [t |-> "string", v |-> s]
Bool(b) == [t |-> "boolean", v |-> b]
Arr(a) == [t |-> "array", v |-> a]
Obj(o) == [t |-> "object", v |-> o]

EmptyFcn == [k \in {} |-> Undefined]
EmptyObject == Obj(EmptyFcn)

\* ToBoolean: undefined, null, NaN, 0, "" and false are falsy
Truthy(x) ==
  CASE x.t = "undefined" -> FALSE
    [] x.t = "null" -> FALSE
    [] x.t = "nan" -> FALSE
    [] x.t = "number" -> x.v # 0
    [] x.t = "string" -> x.v # <<>>
    [] x.t = "boolean" -> x.v
    [] OTHER -> TRUE

\* a || b
Or(a, b) == IF Truthy(a) THEN a ELSE b

\* o.k on an object: a missing key reads as undefined
Get(o, k) == IF o.t = "object" /\ k \in DOMAIN o.v THEN o.v[k] ELSE Undefined

\* o?.k : undefined when o is null or undefined
OptGet(o, k) == IF o.t \in {"undefined", "null"} THEN Undefined ELSE Get(o, k)

\* o.k = v
Put(o, k, v) == Obj([x \in (DOMAIN o.v) \cup {k} |-> IF x = k THEN v ELSE o.v[x]])

MapSeq(s, F(_)) == [i \in 1..Len(s) |-> F(s[i])]

\* a?.map(F)
OptMap(a, F(_)) == IF a.t \in {"undefined", "null"} THEN Undefined ELSE Arr(MapSeq(a.v, F))

\* a.slice(0, n)
SliceFrom0(s, n) == SubSeq(s, 1, IF Len(s) < n THEN Len(s) ELSE n)

(***************************************************************************)
(* Strings                                                                 *)
(***************************************************************************)
Digits == <<"0", "1", "2", "3", "4", "5", "6", "7", "8", "9">>

DigitChar(d) == Digits[d + 1]

DigitVal(c) == CHOOSE d \in 0..9 : Digits[d + 1] = c

IsDigit(c) == \E d \in 0..9 : Digits[d + 1] = c

\* String(n) / `${n}` for a non-negative integer
RECURSIVE ToDigits(_)
ToDigits(n) == IF n < 10 THEN <<DigitChar(n)>> ELSE ToDigits(n \div 10) \o <<DigitChar(n % 10)>>

ToStringNum(n) == IF n < 0 THEN <<"-">> \o ToDigits(0 - n) ELSE ToDigits(n)

RECURSIVE DigitsVal(_)
DigitsVal(s) == IF s = <<>> THEN 0 ELSE 10 * DigitsVal(SubSeq(s, 1, Len(s) - 1)) + DigitVal(s[Len(s)])

\* Number(x) for a string: "" is 0, a run of decimal digits is its value, else NaN
NumberOf(x) ==
  CASE x.t = "number" -> x
    [] x.t = "null" -> Num(0)
    [] x.t = "string" ->
         IF \A i \in 1..Len(x.v) : IsDigit(x.v[i]) THEN Num(DigitsVal(x.v))
         ELSE IF x.v[1] = "-" /\ Len(x.v) > 1 /\ \A i \in 2..Len(x.v) : IsDigit(x.v[i])
              THEN Num(0 - DigitsVal(Tail(x.v)))
              ELSE NaN
    [] OTHER -> NaN

EscapeOf(c) ==
  CASE c = "/" -> <<"%", "2", "F">>
    [] c = "%" -> <<"%", "2", "5">>
    [] c = " " -> <<"%", "2", "0">>
    [] OTHER -> <<c>>

RECURSIVE encodeURIComponent(_)
encodeURIComponent(s) ==
  IF s = <<>> THEN <<>> ELSE EscapeOf(Head(s)) \o encodeURIComponent(Tail(s))

(***************************************************************************)
(* JSON.stringify: keys holding undefined are dropped, NaN becomes null    *)
(***************************************************************************)
RECURSIVE JsonOf(_)
JsonOf(x) ==
  CASE x.t = "object" ->
         Obj([k \in {k \in DOMAIN x.v : x.v[k].t # "undefined"} |-> JsonOf(x.v[k])])
    [] x.t = "array" ->
         Arr([i \in 1..Len(x.v) |-> IF x.v[i].t = "undefined" THEN Null ELSE JsonOf(x.v[i])])
    [] x.t = "nan" -> Null
    [] OTHER -> x

(***************************************************************************)
(* Upstream REST service.  It is not part of the repository: its           *)
(* behaviour is taken from the specification (section 3: tags and          *)
(* assignees are sets; section 4.5: a PUT changes only the keys it         *)
(* carries, a null due date clears it; section 4.1: statuses).             *)
(***************************************************************************)
RECURSIVE SplitOn(_, _)
SplitOn(s, sep) ==
  IF s = <<>> THEN << <<>> >>
  ELSE LET rest == SplitOn(Tail(s), sep)
       IN IF Head(s) = sep THEN << <<>> >> \o rest
          ELSE << <<Head(s)>> \o rest[1] >> \o Tail(rest)

Malformed == <<"malformed">>

UnescapeOf(a, b) ==
  CASE a = "2" /\ b = "F" -> <<"/">>
    [] a = "2" /\ b = "5" -> <<"%">>
    [] a = "2" /\ b = "0" -> <<" ">>
    [] OTHER -> Malformed

\* percent-decoding of one path segment; Malformed when an escape is broken
RECURSIVE decodeSegment(_)
decodeSegment(s) ==
  IF s = <<>> THEN <<>>
  ELSE IF Head(s) # "%"
       THEN LET r == decodeSegment(Tail(s)) IN IF r = Malformed THEN Malformed ELSE <<Head(s)>> \o r
       ELSE IF Len(s) < 3 THEN Malformed
            ELSE LET c == UnescapeOf(s[2], s[3])
                     r == decodeSegment(SubSeq(s, 4, Len(s)))
                 IN IF c = Malformed \/ r = Malformed THEN Malformed ELSE c \o r

TaskIds == {<<"k1">>}
ListIds == {<<"L1">>}

NoTask ==
  [exists |-> FALSE, name |-> Str(<<>>), description |-> Str(<<>>), status |-> Str(<<>>),
   priority |-> Null, due |-> Null, tags |-> <<>>, assignees |-> <<>>]

InSeq(x, s) == \E i \in 1..Len(s) : s[i] = x

\* set-like insertion and removal on the ordered collections upstream returns
AddTo(s, x) == IF InSeq(x, s) THEN s ELSE Append(s, x)

RECURSIVE RemoveFrom(_, _)
RemoveFrom(s, x) ==
  IF s = <<>> THEN <<>>
  ELSE IF Head(s) = x THEN RemoveFrom(Tail(s), x) ELSE <<Head(s)>> \o RemoveFrom(Tail(s), x)

RECURSIVE AddAll(_, _)
AddAll(s, xs) == IF xs = <<>> THEN s ELSE AddAll(AddTo(s, Head(xs)), Tail(xs))

RECURSIVE RemoveAll(_, _)
RemoveAll(s, xs) == IF xs = <<>> THEN s ELSE RemoveAll(RemoveFrom(s, Head(xs)), Tail(xs))

UrlOf(id) == Str(<<"https://app/t/">> \o id)

UserJson(u) == Obj([id |-> Num(u), username |-> Str(<<"u">> \o ToDigits(u))])

TagJson(n) == Obj([name |-> Str(n)])

\* the task as upstream serves it; a sparse answer leaves out the optional
\* keys that have nothing to say
TaskJson(id, rec, sparse) ==
  LET full == [id |-> Str(id), name |-> rec.name, description |-> rec.description,
               status |-> Obj([status |-> rec.status]),
               priority |-> IF rec.priority.t = "null" THEN Null
                            ELSE Obj([priority |-> Str(<<"p">> \o ToStringNum(rec.priority.v))]),
               tags |-> Arr(MapSeq(rec.tags, TagJson)),
               assignees |-> Arr(MapSeq(rec.assignees, UserJson)),
               due_date |-> IF rec.due.t = "null" THEN Null ELSE Str(ToStringNum(rec.due.v)),
               url |-> UrlOf(id)]
      optional == {k \in {"tags", "assignees", "priority", "due_date"} :
                     \/ full[k].t = "null"
                     \/ full[k].t = "array" /\ full[k].v = <<>>}
  IN IF sparse THEN Obj([k \in (DOMAIN full) \ optional |-> full[k]]) ELSE Obj(full)

Has(body, k) == body.t = "object" /\ k \in DOMAIN body.v

NumsOf(a) == IF a.t = "array" THEN [i \in 1..Len(a.v) |-> a.v[i].v] ELSE <<>>

\* PUT /task/{id}: only the keys the body carries are changed
ApplyPut(rec, body) ==
  [rec EXCEPT
     !.name = IF Has(body, "name") THEN body.v["name"] ELSE @,
     !.description = IF Has(body, "description") THEN body.v["description"] ELSE @,
     !.status = IF Has(body, "status") THEN body.v["status"] ELSE @,
     !.priority = IF Has(body, "priority") THEN body.v["priority"] ELSE @,
     !.due = IF Has(body, "due_date") THEN body.v["due_date"] ELSE @,
     !.assignees = IF Has(body, "assignees")
                   THEN RemoveAll(AddAll(@, NumsOf(Get(body.v["assignees"], "add"))),
                                  NumsOf(Get(body.v["assignees"], "rem")))
                   ELSE @]

\* POST /list/{list}/task
NewTask(body) ==
  [exists |-> TRUE,
   name |-> Get(body, "name"),
   description |-> IF Has(body, "description") THEN body.v["description"] ELSE Str(<<>>),
   status |-> Str(<<"open">>),
   priority |-> IF Has(body, "priority") THEN body.v["priority"] ELSE Null,
   due |-> IF Has(body, "due_date") THEN body.v["due_date"] ELSE Null,
   tags |-> IF Has(body, "tags")
            THEN AddAll(<<>>, [i \in 1..Len(body.v["tags"].v) |-> body.v["tags"].v[i].v])
            ELSE <<>>,
   assignees |-> IF Has(body, "assignees") THEN AddAll(<<>>, NumsOf(body.v["assignees"])) ELSE <<>>]

FreshId(store) == CHOOSE id \in TaskIds : ~store[id].exists

Reply(status, text, json, store) == [status |-> status, text |-> text, json |-> json, store |-> store]

NotFound(store) == Reply(404, <<"not found">>, Undefined, store)

TaskRoute(req, segs, store, sparse) ==
  LET id == segs[2]
  IN IF id \notin TaskIds \/ ~store[id].exists THEN NotFound(store)
     ELSE IF Len(segs) = 2 /\ req.method = "GET"
          THEN Reply(200, <<>>, TaskJson(id, store[id], sparse), store)
     ELSE IF Len(segs) = 2 /\ req.method = "PUT"
          THEN LET new == [store EXCEPT ![id] = ApplyPut(@, req.body)]
               IN Reply(200, <<>>, TaskJson(id, new[id], sparse), new)
     ELSE IF Len(segs) = 2 /\ req.method = "DELETE"
          THEN Reply(204, <<>>, Undefined, [store EXCEPT ![id] = NoTask])
     ELSE IF Len(segs) = 4 /\ segs[3] = <<"tag">> /\ req.method \in {"POST", "DELETE"}
          THEN LET tag == decodeSegment(segs[4])
               IN IF tag = Malformed \/ tag = <<>>
                  THEN Reply(400, <<"bad tag">>, Undefined, store)
                  ELSE IF req.method = "POST"
                       THEN Reply(200, <<>>, EmptyObject, [store EXCEPT ![id].tags = AddTo(@, tag)])
                       ELSE Reply(200, <<>>, EmptyObject, [store EXCEPT ![id].tags = RemoveFrom(@, tag)])
     ELSE NotFound(store)

ListRoute(req, segs, store) ==
  IF Len(segs) = 3 /\ segs[2] \in ListIds /\ segs[3] = <<"task">> /\ req.method = "POST"
     /\ \E id \in TaskIds : ~store[id].exists
  THEN LET id == FreshId(store)
       IN Reply(200, <<>>, Obj([id |-> Str(id), url |-> UrlOf(id)]),
                [store EXCEPT ![id] = NewTask(req.body)])
  ELSE NotFound(store)

(***************************************************************************)
(* Upstream workspace: teams, their members, spaces, folders and lists     *)
(***************************************************************************)
TeamIds == {<<"T1">>, <<"T2">>}
SpaceIds == {<<"s1">>, <<"s2">>, <<"s3">>}

NameOf(id) == Str(id \o <<"-", "n">>)

\* the folders of a space, each with the ids of its lists
FoldersData(s) ==
  CASE s = <<"s1">> -> << [id |-> <<"f1">>, lists |-> << <<"l1">>, <<"l2">> >>] >>
    [] s = <<"s2">> -> <<>>
    [] OTHER -> << [id |-> <<"f3">>, lists |-> <<>>], [id |-> <<"f4">>, lists |-> << <<"l4">> >>] >>

\* the ids of the lists directly under a space
ListsData(s) ==
  CASE s = <<"s1">> -> << <<"l5">> >>
    [] s = <<"s2">> -> << <<"l6">>, <<"l7">> >>
    [] OTHER -> <<>>

\* the user ids of the members of a workspace
MembersData(t) == IF t = <<"T1">> THEN <<1, 2>> ELSE <<>>

IdName(id) == Obj([id |-> Str(id), name |-> NameOf(id)])

\* {key: array}; a sparse answer leaves an empty array out
Collection(key, items, sparse) ==
  IF sparse /\ items = <<>> THEN EmptyObject ELSE Obj([k \in {key} |-> Arr(items)])

FolderJson(f, sparse) ==
  IF sparse /\ f.lists = <<>> THEN IdName(f.id)
  ELSE Put(IdName(f.id), "lists", Arr(MapSeq(f.lists, IdName)))

MemberJson(u) ==
  Obj([user |-> Obj([id |-> Num(u), username |-> Str(<<"u">> \o ToDigits(u)),
                     email |-> Str(<<"u">> \o ToDigits(u) \o <<"@", "x">>)])])

\* the tasks a search matches are the service's own business: env.matches of
\* them, newest first, every third without a due date, some due at 0
MatchRec(i) ==
  [exists |-> TRUE, name |-> NameOf(<<"m">> \o ToDigits(i)), description |-> Str(<<>>),
   status |-> Str(<<"open">>), priority |-> Null,
   due |-> IF i % 3 = 0 THEN Null ELSE IF i % 3 = 2 THEN Num(0) ELSE Num(i),
   tags |-> <<>>, assignees |-> IF i % 2 = 0 THEN <<>> ELSE <<1>>]

MatchId(i) == <<"m">> \o ToDigits(i)

Matches(n, sparse) == [p \in 1..n |-> TaskJson(MatchId(n + 1 - p), MatchRec(n + 1 - p), sparse)]

TeamRoute(req, segs, ups, env) ==
  IF req.method # "GET" \/ segs[2] \notin TeamIds THEN NotFound(ups.tasks)
  ELSE IF Len(segs) = 3 /\ segs[3] = <<"task">>
       THEN Reply(200, <<>>, Collection("tasks", Matches(env.matches, env.sparse), env.sparse),
                  ups.tasks)
  ELSE IF Len(segs) = 2
       THEN Reply(200, <<>>,
                  Obj([team |-> Put(Collection("members", MapSeq(MembersData(segs[2]), MemberJson), env.sparse),
                                    "id", Str(segs[2]))]),
                  ups.tasks)
  ELSE IF Len(segs) = 3 /\ segs[3] = <<"space">>
       THEN Reply(200, <<>>, Collection("spaces", MapSeq(ups.spaces, IdName), env.sparse), ups.tasks)
  ELSE NotFound(ups.tasks)

SpaceRoute(req, segs, ups, env) ==
  IF req.method # "GET" \/ segs[2] \notin SpaceIds \/ Len(segs) # 3 THEN NotFound(ups.tasks)
  ELSE IF segs[3] = <<"folder">>
       THEN Reply(200, <<>>,
                  Collection("folders",
                             [i \in 1..Len(FoldersData(segs[2])) |->
                                FolderJson(FoldersData(segs[2])[i], env.sparse)],
                             env.sparse),
                  ups.tasks)
  ELSE IF segs[3] = <<"list">>
       THEN Reply(200, <<>>, Collection("lists", MapSeq(ListsData(segs[2]), IdName), env.sparse),
                  ups.tasks)
  ELSE NotFound(ups.tasks)

Segments(path) == Tail(SplitOn(SplitOn(path, "?")[1], "/"))

\* env.fault: the service fails on its own; env.sparse: it leaves out optional keys
\* ups: what the service holds, its tasks and the ordered spaces of the teams
Upstream(req, ups, env) ==
  LET segs == Segments(req.path)
      store == ups.tasks
  IN IF env.fault THEN Reply(500, <<"upstream error">>, Undefined, store)
     ELSE IF Len(segs) >= 2 /\ segs[1] = <<"task">> THEN TaskRoute(req, segs, store, env.sparse)
     ELSE IF Len(segs) >= 2 /\ segs[1] = <<"list">> THEN ListRoute(req, segs, store)
     ELSE IF Len(segs) >= 2 /\ segs[1] = <<"team">> THEN TeamRoute(req, segs, ups, env)
     ELSE IF Len(segs) >= 2 /\ segs[1] = <<"space">> THEN SpaceRoute(req, segs, ups, env)
     ELSE NotFound(store)

Envs == [fault : BOOLEAN, sparse : BOOLEAN]

\* answers whose JSON the handlers do not read: sparseness makes no difference
Faults == [fault : BOOLEAN, sparse : {FALSE}]

NoFault == [fault |-> FALSE, sparse |-> FALSE]

(***************************************************************************)
(* HTTP client wrapper                                                     *)
(***************************************************************************)
\* the one fetch() of api: body is serialised only when given
Request(method, path, body) ==
  [method |-> method, path |-> path, body |-> IF Truthy(body) THEN JsonOf(body) ELSE Undefined]

\* res.ok
ResponseOk(status) == status >= 200 /\ status <= 299

\* `${res.status}: ${await res.text()}`
ErrorMessage(status, text) == ToDigits(status) \o <<":", " ">> \o text

\* api as it would be if only server errors were thrown
ApiSettleLenient(res) ==
  IF res.status >= 500
  THEN [threw |-> TRUE, error |-> ErrorMessage(res.status, res.text), value |-> Undefined]
  ELSE [threw |-> FALSE, error |-> <<>>,
        value |-> IF res.status = 204 \/ res.json.t = "undefined" THEN EmptyObject ELSE res.json]

\* what api makes of a response: throw on a non-ok status, {} on 204, else the JSON
ApiSettle(res) ==
  IF ~ResponseOk(res.status)
  THEN [threw |-> TRUE, error |-> ErrorMessage(res.status, res.text), value |-> Undefined]
  ELSE [threw |-> FALSE, error |-> <<>>,
        value |-> IF res.status = 204 THEN EmptyObject ELSE res.json]

api(method, path, body, ups, env) ==
  LET req == Request(method, path, body)
      res == Upstream(req, ups, env)
      out == ApiSettle(res)
  IN [reqs |-> <<req>>,
      resps |-> <<[status |-> res.status, text |-> res.text, json |-> res.json]>>,
      store |-> res.store, threw |-> out.threw, error |-> out.error, value |-> out.value]

\* json(data): the tool's one text payload
json(data) == [isError |-> FALSE, data |-> JsonOf(data), message |-> <<>>]

\* an uncaught throw in a handler: the invocation fails with the error's message
Thrown(message) == [isError |-> TRUE, data |-> Undefined, message |-> message]

\* a handler that awaits one call and then shapes its value
Handler(call, data) ==
  [reqs |-> call.reqs, resps |-> call.resps, store |-> call.store,
   result |-> IF call.threw THEN Thrown(call.error) ELSE json(data)]

(***************************************************************************)
(* Tool handlers on one task                                               *)
(***************************************************************************)
TaskPath(id) == <<"/", "task", "/">> \o id

AssigneeShape(a) == Obj([id |-> Get(a, "id"), name |-> Get(a, "username")])

TagName(x) == Get(x, "name")

\* task.due_date ? Number(task.due_date) : null
\* the due date as it would be without the test for a missing one
DueOfNumber(task) == NumberOf(Get(task, "due_date"))

DueOf(task) == IF Truthy(Get(task, "due_date")) THEN NumberOf(Get(task, "due_date")) ELSE Null

\* the full task projection of the task tool
TaskShape(task) ==
  Obj([id |-> Get(task, "id"),
       name |-> Get(task, "name"),
       desc |-> Get(task, "description"),
       status |-> OptGet(Get(task, "status"), "status"),
       priority |-> OptGet(Get(task, "priority"), "priority"),
       tags |-> OptMap(Get(task, "tags"), TagName),
       assignees |-> OptMap(Get(task, "assignees"), AssigneeShape),
       due |-> DueOf(task),
       url |-> Get(task, "url")])

IdUrl(t) == Obj([id |-> Get(t, "id"), url |-> Get(t, "url")])

OkTrue == Obj([ok |-> Bool(TRUE)])

taskTool(a, ups, env) ==
  LET call == api("GET", TaskPath(a.id), Undefined, ups, env)
  IN Handler(call, TaskShape(call.value))

createTool(a, ups, env) ==
  LET body == Obj([name |-> Str(a.name), description |-> a.desc, priority |-> a.priority,
                   tags |-> a.tags, due_date |-> a.due, assignees |-> a.assignees])
      call == api("POST", <<"/", "list", "/">> \o a.list \o <<"/", "task">>, body, ups, env)
  IN Handler(call, IdUrl(call.value))

\* update as it would be with the due date assigned unconditionally
UpdateBodyAlwaysDue(a) ==
  LET b0 == EmptyObject
      b1 == IF a.name.t # "undefined" THEN Put(b0, "name", a.name) ELSE b0
      b2 == IF a.desc.t # "undefined" THEN Put(b1, "description", a.desc) ELSE b1
      b3 == IF a.status.t # "undefined" THEN Put(b2, "status", a.status) ELSE b2
      b4 == IF a.priority.t # "undefined" THEN Put(b3, "priority", a.priority) ELSE b3
  IN Put(b4, "due_date", Or(a.due, Null))

\* update as it would be with the due date passed through untranslated
UpdateBodyRawDue(a) ==
  LET b0 == EmptyObject
      b1 == IF a.name.t # "undefined" THEN Put(b0, "name", a.name) ELSE b0
      b2 == IF a.desc.t # "undefined" THEN Put(b1, "description", a.desc) ELSE b1
      b3 == IF a.status.t # "undefined" THEN Put(b2, "status", a.status) ELSE b2
      b4 == IF a.priority.t # "undefined" THEN Put(b3, "priority", a.priority) ELSE b3
  IN IF a.due.t # "undefined" THEN Put(b4, "due_date", a.due) ELSE b4

\* the body of update: one key per argument that is not undefined
UpdateBody(a) ==
  LET b0 == EmptyObject
      b1 == IF a.name.t # "undefined" THEN Put(b0, "name", a.name) ELSE b0
      b2 == IF a.desc.t # "undefined" THEN Put(b1, "description", a.desc) ELSE b1
      b3 == IF a.status.t # "undefined" THEN Put(b2, "status", a.status) ELSE b2
      b4 == IF a.priority.t # "undefined" THEN Put(b3, "priority", a.priority) ELSE b3
      b5 == IF a.due.t # "undefined" THEN Put(b4, "due_date", Or(a.due, Null)) ELSE b4
  IN b5

updateTool(a, ups, env) ==
  LET call == api("PUT", TaskPath(a.id), UpdateBody(a), ups, env)
  IN Handler(call, IdUrl(call.value))

deleteTool(a, ups, env) ==
  LET call == api("DELETE", TaskPath(a.id), Undefined, ups, env)
  IN Handler(call, OkTrue)

\* assign as the earlier revision has it, on a dedicated assignee endpoint
assignToolEndpoint(a, ups, env) ==
  LET call == api("POST", TaskPath(a.id) \o <<"/", "assignee">>, Obj([assignee |-> Num(a.user)]),
                  ups, env)
  IN Handler(call, OkTrue)

assignTool(a, ups, env) ==
  LET body == Obj([assignees |-> Obj([add |-> Arr(<<Num(a.user)>>)])])
      call == api("PUT", TaskPath(a.id), body, ups, env)
  IN Handler(call, OkTrue)

unassignTool(a, ups, env) ==
  LET body == Obj([assignees |-> Obj([rem |-> Arr(<<Num(a.user)>>)])])
      call == api("PUT", TaskPath(a.id), body, ups, env)
  IN Handler(call, OkTrue)

TagPath(id, tag) == TaskPath(id) \o <<"/", "tag", "/">> \o encodeURIComponent(tag)

tagTool(a, ups, env) ==
  LET call == api("POST", TagPath(a.id, a.tag), EmptyObject, ups, env)
  IN Handler(call, OkTrue)

\* untag as it would be with the method copied from tag
untagToolPost(a, ups, env) ==
  LET call == api("POST", TagPath(a.id, a.tag), Undefined, ups, env)
  IN Handler(call, OkTrue)

untagTool(a, ups, env) ==
  LET call == api("DELETE", TagPath(a.id, a.tag), Undefined, ups, env)
  IN Handler(call, OkTrue)

(***************************************************************************)
(* The search handler                                                      *)
(***************************************************************************)
TeamRequired == <<"team required (or set CLICKUP_TEAM_ID)">>

\* team resolution as it would be with the default taking precedence
ResolveTeamDefaultFirst(team, default) == Or(default, team)

\* team || DEFAULT_TEAM
ResolveTeam(team, default) == Or(team, default)

SearchLimit == 20

FormEscapeOf(c) ==
  CASE c = " " -> <<"+">>
    [] c = "/" -> <<"%", "2", "F">>
    [] c = "%" -> <<"%", "2", "5">>
    [] OTHER -> <<c>>

\* a value as URLSearchParams serialises it
RECURSIVE FormEncode(_)
FormEncode(q) == IF q = <<>> THEN <<>> ELSE FormEscapeOf(Head(q)) \o FormEncode(Tail(q))

\* new URLSearchParams({query: q}) and the filters that are truthy
SearchParams(a) ==
  <<"query=">> \o FormEncode(a.q)
  \o (IF Truthy(a.assignee) THEN <<"&", "assignees%5B%5D=">> \o ToStringNum(a.assignee.v) ELSE <<>>)
  \o (IF Truthy(a.due_before) THEN <<"&", "due_date_lt=">> \o ToStringNum(a.due_before.v) ELSE <<>>)
  \o (IF Truthy(a.due_after) THEN <<"&", "due_date_gt=">> \o ToStringNum(a.due_after.v) ELSE <<>>)

\* the compact task of a search result
SearchShape(task) ==
  Obj([id |-> Get(task, "id"),
       name |-> Get(task, "name"),
       status |-> OptGet(Get(task, "status"), "status"),
       assignees |-> OptMap(Get(task, "assignees"), AssigneeShape),
       due |-> DueOf(task),
       url |-> Get(task, "url")])

\* search as it would be without the slice
SearchResultsAll(res) == Arr(MapSeq(Or(Get(res, "tasks"), Arr(<<>>)).v, SearchShape))

\* (res.tasks || []).slice(0, 20).map(...)
SearchResults(res) ==
  Arr(MapSeq(SliceFrom0(Or(Get(res, "tasks"), Arr(<<>>)).v, SearchLimit), SearchShape))

searchTool(a, default, ups, env) ==
  LET teamId == ResolveTeam(a.team, default)
      call == api("GET", <<"/", "team", "/">> \o teamId.v \o <<"/", "task", "?">> \o SearchParams(a),
                  Undefined, ups, env)
  IN IF ~Truthy(teamId)
     THEN [reqs |-> <<>>, resps |-> <<>>, store |-> ups.tasks, result |-> Thrown(TeamRequired)]
     ELSE Handler(call, SearchResults(call.value))

(***************************************************************************)
(* The hierarchy handler: two joined calls, then two calls per space, all  *)
(* spaces in parallel                                                      *)
(***************************************************************************)
\* team || DEFAULT_TEAM
Stage1Keys == {<<"team", 0>>, <<"spaces", 0>>}

SpaceKeys(i) == {<<"folder", i>>, <<"list", i>>}

Archived == <<"?", "archived=false">>

TeamRequests(teamId) ==
  << [key |-> <<"team", 0>>, req |-> Request("GET", <<"/", "team", "/">> \o teamId.v, Undefined)],
     [key |-> <<"spaces", 0>>,
      req |-> Request("GET", <<"/", "team", "/">> \o teamId.v \o <<"/", "space">> \o Archived,
                      Undefined)] >>

\* the two calls the mapper issues for the space at index i
SpaceRequests(sp, i) ==
  << [key |-> <<"folder", i>>,
      req |-> Request("GET", <<"/", "space", "/">> \o Get(sp, "id").v \o <<"/", "folder">> \o Archived,
                      Undefined)],
     [key |-> <<"list", i>>,
      req |-> Request("GET", <<"/", "space", "/">> \o Get(sp, "id").v \o <<"/", "list">> \o Archived,
                      Undefined)] >>

RECURSIVE FanOutRequests(_, _)
FanOutRequests(found, i) ==
  IF i > Len(found) THEN <<>> ELSE SpaceRequests(found[i], i) \o FanOutRequests(found, i + 1)

\* Promise.all as it would be if it waited for every call and never rejected
PromiseAllSettledState(calls, keys) ==
  IF \A k \in keys : calls[k].state # "pending" THEN "fulfilled" ELSE "pending"

\* Promise.all as it would be if it were a race: settled by the first call to settle
PromiseRaceState(calls, keys) ==
  IF \E k \in keys : calls[k].state = "fail" THEN "rejected"
  ELSE IF \E k \in keys : calls[k].state = "ok" THEN "fulfilled"
  ELSE "pending"

\* Promise.all over the calls keys: rejected once one has failed, fulfilled
\* when all have succeeded
PromiseAllState(calls, keys) ==
  IF \E k \in keys : calls[k].state = "fail" THEN "rejected"
  ELSE IF \A k \in keys : calls[k].state = "ok" THEN "fulfilled"
  ELSE "pending"

\* Promise.all as it would be if it kept the values in the order they arrived
PromiseAllArrival(settled, n) == [i \in 1..n |-> settled[i].rec]

\* the values of Promise.all: the value of the i-th input at index i
PromiseAllValues(settled, n) ==
  [i \in 1..n |-> (CHOOSE e \in {settled[j] : j \in 1..Len(settled)} : e.idx = i).rec]

ListShape(l) == Obj([id |-> Get(l, "id"), name |-> Get(l, "name")])

FolderShape(f) ==
  Obj([id |-> Get(f, "id"), name |-> Get(f, "name"),
       lists |-> Arr(MapSeq(Or(Get(f, "lists"), Arr(<<>>)).v, ListShape))])

SpaceRecord(sp, foldersRes, listsRes) ==
  Obj([id |-> Get(sp, "id"), name |-> Get(sp, "name"),
       folders |-> Arr(MapSeq(Or(Get(foldersRes, "folders"), Arr(<<>>)).v, FolderShape)),
       lists |-> Arr(MapSeq(Or(Get(listsRes, "lists"), Arr(<<>>)).v, ListShape))])

MemberShape(m) ==
  Obj([id |-> Get(Get(m, "user"), "id"), name |-> Get(Get(m, "user"), "username"),
       email |-> Get(Get(m, "user"), "email")])

MembersOf(teamInfo) ==
  Arr(MapSeq(Or(OptGet(Get(teamInfo, "team"), "members"), Arr(<<>>)).v, MemberShape))

NoResult == [isError |-> FALSE, data |-> Undefined, message |-> <<>>]

PendingCall == [state |-> "pending", value |-> Undefined, error |-> <<>>]

HierIdle ==
  [pc |-> "idle", team |-> Undefined, sparse |-> FALSE, reqs |-> <<>>, calls |-> EmptyFcn,
   found |-> <<>>, settled |-> <<>>, result |-> NoResult]

Issue(h, rs) ==
  [h EXCEPT !.reqs = @ \o rs,
            !.calls = [k \in (DOMAIN h.calls) \cup {rs[i].key : i \in 1..Len(rs)} |->
                         IF k \in DOMAIN h.calls THEN h.calls[k] ELSE PendingCall]]

\* the handler up to its first await
hierarchyStart(team, default, sparse) ==
  LET teamId == ResolveTeam(team, default)
      h == [HierIdle EXCEPT !.team = team, !.sparse = sparse]
  IN IF ~Truthy(teamId) THEN [h EXCEPT !.pc = "done", !.result = Thrown(TeamRequired)]
     ELSE [Issue(h, TeamRequests(teamId)) EXCEPT !.pc = "stage1"]

\* return json({ spaces, members })
hierarchyReturn(h) ==
  [h EXCEPT !.pc = "done",
            !.result = json(Obj([spaces |-> Arr(PromiseAllValues(h.settled, Len(h.found))),
                                 members |-> MembersOf(h.calls[<<"team", 0>>].value)]))]

\* after the first join: one mapper per space, each issuing its two calls
hierarchyFanOut(h) ==
  LET found == Or(Get(h.calls[<<"spaces", 0>>].value, "spaces"), Arr(<<>>)).v
      h2 == [Issue(h, FanOutRequests(found, 1)) EXCEPT !.pc = "stage2", !.found = found]
  IN IF found = <<>> THEN hierarchyReturn(h2) ELSE h2

\* the handler resumed by the settling of the call key
hierarchyResume(h, key) ==
  IF h.pc = "done" THEN h
  ELSE IF h.pc = "stage1"
       THEN LET st == PromiseAllState(h.calls, Stage1Keys)
            IN IF st = "rejected" THEN [h EXCEPT !.pc = "done", !.result = Thrown(h.calls[key].error)]
               ELSE IF st = "fulfilled" THEN hierarchyFanOut(h)
               ELSE h
  ELSE LET i == key[2]
           st == PromiseAllState(h.calls, SpaceKeys(i))
           h2 == IF st = "fulfilled"
                 THEN [h EXCEPT !.settled =
                         Append(@, [idx |-> i,
                                    rec |-> SpaceRecord(h.found[i], h.calls[<<"folder", i>>].value,
                                                        h.calls[<<"list", i>>].value)])]
                 ELSE h
       IN IF st = "rejected" THEN [h EXCEPT !.pc = "done", !.result = Thrown(h.calls[key].error)]
          ELSE IF Len(h2.settled) = Len(h2.found) THEN hierarchyReturn(h2)
          ELSE h2

RequestOf(h, key) == (CHOOSE e \in {h.reqs[j] : j \in 1..Len(h.reqs)} : e.key = key).req

\* the call key of the handler gets its response
hierarchySettle(h, key, ups, fault) ==
  LET res == Upstream(RequestOf(h, key), ups, [fault |-> fault, sparse |-> h.sparse])
      out == ApiSettle(res)
      h2 == [h EXCEPT !.calls[key] = [state |-> IF out.threw THEN "fail" ELSE "ok",
                                      value |-> out.value, error |-> out.error]]
  IN hierarchyResume(h2, key)

(***************************************************************************)
(* Inputs the tool schemas admit (small sets)                              *)
(***************************************************************************)
MaxTasks == 22

\* every team argument without filters, and every filter on one team
SearchArgs ==
  [q : {<<"a", " ", "b">>}, team : {Undefined, Str(<<"T2">>)}, assignee : {Undefined},
   due_before : {Undefined}, due_after : {Undefined}]
  \cup [q : {<<"a">>}, team : {Str(<<"T2">>)}, assignee : {Num(0), Num(1)},
        due_before : {Num(17)}, due_after : {Num(5)}]

\* any number of matches, a service that leaves empty fields out, a failing one
SearchEnvs ==
  [fault : {FALSE}, sparse : {FALSE}, matches : 0..MaxTasks]
  \cup [fault : {FALSE}, sparse : {TRUE}, matches : {0, 3}]
  \cup [fault : {TRUE}, sparse : {FALSE}, matches : {0}]

TeamSearchArgs ==
  [q : {<<"a">>}, team : {Undefined, Str(<<>>), Str(<<"T2">>)}, assignee : {Undefined},
   due_before : {Undefined}, due_after : {Undefined}]

TeamSearchEnvs == [fault : BOOLEAN, sparse : {FALSE}, matches : {1}]

ShapeSearchArgs ==
  [q : {<<"a">>}, team : {Undefined}, assignee : {Undefined}, due_before : {Undefined},
   due_after : {Undefined}]

\* an answer without tasks and one of two tasks, complete or with empty fields left out
ShapeSearchEnvs == [fault : {FALSE}, sparse : BOOLEAN, matches : {0, 2}]

TeamArgs == {Undefined, Str(<<>>), Str(<<"T2">>)}
DefaultTeams == {Undefined, Str(<<>>), Str(<<"T1">>)}

UnknownId == <<"k0">>
IdArgs == TaskIds \cup {UnknownId}

NameArgs == {Undefined, Str(<<>>)}
DescArgs == {Undefined, Str(<<"d">>)}
StatusArgs == {Undefined, Str(<<"s">>)}
PriorityArgs == {Undefined, Num(0)}
DueArgs == {Undefined, Num(0), Num(17)}

UpdateArgs ==
  [id : TaskIds, name : NameArgs, desc : DescArgs, status : StatusArgs,
   priority : PriorityArgs, due : DueArgs]

CreateArgs ==
  [list : ListIds \cup {<<"Lx">>}, name : {<<"n">>}, desc : {Undefined}, priority : {Undefined},
   tags : {Undefined, Arr(<<Str(<<"a">>)>>)}, due : DueArgs,
   assignees : {Undefined}]

Users == {1, 2}
TagArgs == {<<"a">>, <<"b", "/">>}

InitialTask ==
  [exists |-> TRUE, name |-> Str(<<"n", "0">>), description |-> Str(<<"d", "0">>),
   status |-> Str(<<"open">>), priority |-> Num(1), due |-> Num(5), tags |-> <<>>,
   assignees |-> <<>>]

\* the tag and assignee collections of every task
Collections(store) == [id \in TaskIds |-> [tags |-> store[id].tags, assignees |-> store[id].assignees]]

RelationTools == {"assign", "unassign", "tag", "untag"}

NoneBefore == [tool |-> "none", args |-> EmptyFcn, pre |-> <<>>]

\* what is remembered of the invocation before the last one, when that was a
\* successful change of a tag or an assignee: its tool, its arguments and the
\* collections it found
Before(inv) ==
  IF inv.tool \in RelationTools /\ ~inv.result.isError
  THEN [tool |-> inv.tool, args |-> inv.args, pre |-> inv.pre]
  ELSE NoneBefore

NoInvocation == [tool |-> "none", args |-> EmptyFcn, reqs |-> <<>>, resps |-> <<>>,
                 result |-> json(EmptyObject),
                 pre |-> Collections([id \in TaskIds |-> NoTask]), before |-> NoneBefore]

(***************************************************************************)
(* Tool invocations: one action per tool; a handler with a single await    *)
(* runs from the request to the result in one step                         *)
(***************************************************************************)
\* what the service holds now
Ups == [tasks |-> tasks, spaces |-> spaces]

\* the record kept of a finished invocation
Finished(tool, a, h) ==
  [tool |-> tool, args |-> a, reqs |-> h.reqs, resps |-> h.resps, result |-> h.result,
   pre |-> Collections(tasks), before |-> Before(last)]

Task ==
  \E id \in IdArgs, env \in Envs :
    LET a == [id |-> id]
        h == taskTool(a, Ups, env)
    IN /\ last' = Finished("task", a, h)
       /\ tasks' = h.store
       /\ UNCHANGED <<DEFAULT_TEAM, spaces, hier>>

Create ==
  \E a \in CreateArgs :
    LET h == createTool(a, Ups, NoFault)
    IN /\ last' = Finished("create", a, h)
       /\ tasks' = h.store
       /\ UNCHANGED <<DEFAULT_TEAM, spaces, hier>>

Update ==
  \E a \in UpdateArgs :
    LET h == updateTool(a, Ups, NoFault)
    IN /\ last' = Finished("update", a, h)
       /\ tasks' = h.store
       /\ UNCHANGED <<DEFAULT_TEAM, spaces, hier>>

Delete ==
  \E id \in IdArgs, env \in Faults :
    LET a == [id |-> id]
        h == deleteTool(a, Ups, env)
    IN /\ last' = Finished("delete", a, h)
       /\ tasks' = h.store
       /\ UNCHANGED <<DEFAULT_TEAM, spaces, hier>>

Assign ==
  \E id \in IdArgs, u \in Users, env \in Faults :
    LET a == [id |-> id, user |-> u]
        h == assignTool(a, Ups, env)
    IN /\ last' = Finished("assign", a, h)
       /\ tasks' = h.store
       /\ UNCHANGED <<DEFAULT_TEAM, spaces, hier>>

Unassign ==
  \E id \in IdArgs, u \in Users, env \in Faults :
    LET a == [id |-> id, user |-> u]
        h == unassignTool(a, Ups, env)
    IN /\ last' = Finished("unassign", a, h)
       /\ tasks' = h.store
       /\ UNCHANGED <<DEFAULT_TEAM, spaces, hier>>

Tag ==
  \E id \in IdArgs, g \in TagArgs, env \in Faults :
    LET a == [id |-> id, tag |-> g]
        h == tagTool(a, Ups, env)
    IN /\ last' = Finished("tag", a, h)
       /\ tasks' = h.store
       /\ UNCHANGED <<DEFAULT_TEAM, spaces, hier>>

Untag ==
  \E id \in IdArgs, g \in TagArgs, env \in Faults :
    LET a == [id |-> id, tag |-> g]
        h == untagTool(a, Ups, env)
    IN /\ last' = Finished("untag", a, h)
       /\ tasks' = h.store
       /\ UNCHANGED <<DEFAULT_TEAM, spaces, hier>>

SearchWith(Args, Es) ==
  \E a \in Args, env \in Es :
    LET h == searchTool(a, DEFAULT_TEAM, Ups, env)
    IN /\ last' = Finished("search", a, h)
       /\ tasks' = h.store
       /\ UNCHANGED <<DEFAULT_TEAM, spaces, hier>>

Search == SearchWith(SearchArgs, SearchEnvs)

SearchByTeam == SearchWith(TeamSearchArgs, TeamSearchEnvs)

SearchShaped == SearchWith(ShapeSearchArgs, ShapeSearchEnvs)

Hierarchy ==
  \E team \in TeamArgs, sparse \in BOOLEAN :
    /\ hier.pc = "idle"
    /\ hier' = hierarchyStart(team, DEFAULT_TEAM, sparse)
    /\ UNCHANGED <<DEFAULT_TEAM, tasks, spaces, last>>

Respond ==
  \E key \in DOMAIN hier.calls, fault \in BOOLEAN :
    /\ hier.calls[key].state = "pending"
    /\ hier' = hierarchySettle(hier, key, Ups, fault)
    /\ UNCHANGED <<DEFAULT_TEAM, tasks, spaces, last>>

Init ==
  /\ DEFAULT_TEAM = Undefined
  /\ tasks = [id \in TaskIds |-> InitialTask]
  /\ spaces = <<>>
  /\ last = NoInvocation
  /\ hier = HierIdle

Next == Task \/ Create \/ Update \/ Delete

Spec == Init /\ [][Next]_vars

NextRel == Task \/ Assign \/ Unassign \/ Tag \/ Untag

SpecRel == Init /\ [][NextRel]_vars

(***************************************************************************)
(* Properties of update                                                    *)
(***************************************************************************)
UpdateFields == {"name", "desc", "status", "priority", "due"}

\* the upstream key an update argument travels under
KeyOf(f) == CASE f = "desc" -> "description" [] f = "due" -> "due_date" [] OTHER -> f

\* the field of the stored task an update argument addresses
StoredAs(f) == CASE f = "desc" -> "description" [] OTHER -> f

Supplied(a) == {f \in UpdateFields : a[f].t # "undefined"}

SentKeysExact ==
  last.tool = "update" =>
    /\ Len(last.reqs) = 1
    /\ last.reqs[1].method = "PUT"
    /\ last.reqs[1].path = <<"/", "task", "/">> \o last.args.id
    /\ last.reqs[1].body.t = "object"
    /\ DOMAIN last.reqs[1].body.v = {KeyOf(f) : f \in Supplied(last.args)}

OmittedUntouched ==
  last'.tool = "update" =>
    \A f \in UpdateFields \ Supplied(last'.args) :
      tasks'[last'.args.id][StoredAs(f)] = tasks[last'.args.id][StoredAs(f)]

\* C4: update sends exactly the keys of the supplied fields, whatever subset
\* of name, desc, status, priority and due is supplied, and the stored value
\* of every omitted field is the same after the call as before it.
C4_PartialUpdate == [](SentKeysExact) /\ [][OmittedUntouched]_vars

\* C4 witness: a successful update that supplies an empty name and a due
\* date and omits the other three fields, whose stored values are the
\* initial ones.
C4_Witness ==
  /\ last.tool = "update" /\ ~last.result.isError
  /\ Supplied(last.args) = {"name", "due"}
  /\ last.args.name = Str(<<>>)
  /\ tasks[last.args.id].description = InitialTask.description
  /\ tasks[last.args.id].name = Str(<<>>)

\* C5: an update with due = 0 sends due_date: null and, when it succeeds,
\* leaves the task without a due date; an update with a non-zero due sends
\* that number and the task then carries it.
C5_DueZeroClears ==
  (last.tool = "update" /\ last.args.due.t = "number") =>
    LET sent == Get(last.reqs[1].body, "due_date")
        want == IF last.args.due.v = 0 THEN Null ELSE Num(last.args.due.v)
    IN /\ sent = want
       /\ ~last.result.isError => tasks[last.args.id].due = want

\* C5 witness: a successful update with due = 0 after which the task has no
\* due date.
C5_Witness ==
  /\ last.tool = "update" /\ ~last.result.isError
  /\ last.args.due = Num(0)
  /\ tasks[last.args.id].due = Null

(***************************************************************************)
(* Properties of the HTTP client wrapper                                   *)
(***************************************************************************)
\* C10: every invocation of a single-call tool issues exactly one request
\* and gets one response; when the status is not in 200..299 the invocation
\* fails with the message "<status>: <body text>", and a delete of a task
\* that does not exist gets 404 and fails instead of returning {ok: true}.
C10_SingleAttemptFailure ==
  last.tool # "none" =>
    /\ Len(last.reqs) = 1 /\ Len(last.resps) = 1
    /\ (last.resps[1].status < 200 \/ last.resps[1].status > 299) =>
          /\ last.result.isError
          /\ last.result.data = Undefined
          /\ last.result.message = ToDigits(last.resps[1].status) \o <<":", " ">> \o last.resps[1].text
    /\ (last.tool = "delete" /\ last.resps[1].status = 404) =>
          last.result.message = <<"4", "0", "4", ":", " ", "not found">>
    /\ (last.tool = "delete" /\ last.args.id = UnknownId /\ last.resps[1].status # 500) =>
          last.resps[1].status = 404 /\ last.result.isError

\* C10 witness: a delete of an unknown id answered 404 has failed with that
\* status in its message.
C10_Witness ==
  /\ last.tool = "delete" /\ last.args.id = UnknownId
  /\ last.resps[1].status = 404
  /\ last.result.isError
  /\ SubSeq(last.result.message, 1, 3) = <<"4", "0", "4">>

(***************************************************************************)
(* Properties of tag, untag, assign and unassign                           *)
(***************************************************************************)
Without(s, x) == SelectSeq(s, LAMBDA y : y # x)

Occurrences(s, x) == Cardinality({i \in 1..Len(s) : s[i] = x})

\* the last invocation is a successful untag that directly follows a
\* successful tag of the same tag on the same task
TagThenUntag ==
  /\ last.tool = "untag" /\ ~last.result.isError
  /\ last.before.tool = "tag"
  /\ last.before.args = last.args

\* C8 as stated: tag followed by untag of the same name leaves the tag
\* collection as it was before the tag, whatever it held.
C8_RoundTripAnySet ==
  TagThenUntag => tasks[last.args.id].tags = last.before.pre[last.args.id].tags

\* C8 amended: tag followed by untag of the same name leaves the tag
\* collection as it was before the tag with that name taken out; so it is
\* restored exactly when the name was not in it before.
C8_RoundTripFreshTag ==
  TagThenUntag =>
    LET was == last.before.pre[last.args.id].tags
    IN /\ tasks[last.args.id].tags = Without(was, last.args.tag)
       /\ ~InSeq(last.args.tag, was) => tasks[last.args.id].tags = was

\* C8 witness: tag then untag of a name that needs escaping in the path, on
\* a task that held another tag and not this one, which is restored.
C8_Witness ==
  /\ TagThenUntag
  /\ last.args.tag = <<"b", "/">>
  /\ last.before.pre[last.args.id].tags = << <<"a">> >>
  /\ tasks[last.args.id].tags = << <<"a">> >>

\* the request of the last invocation reached the service and the task exists
Served == last.args.id \in TaskIds /\ tasks[last.args.id].exists /\ last.resps[1].status # 500

\* C9: an assign that the service serves succeeds and leaves the user in the
\* assignee collection exactly once, also when it directly follows a
\* successful assign of the same user; an unassign of a user who is not
\* assigned succeeds and leaves the collection as it was.
C9_AssignIdempotent ==
  /\ (last.tool = "assign" /\ Served) =>
        /\ ~last.result.isError
        /\ Occurrences(tasks[last.args.id].assignees, last.args.user) = 1
        /\ (last.before.tool = "assign" /\ last.before.args = last.args) =>
              tasks[last.args.id].assignees = last.pre[last.args.id].assignees
  /\ (last.tool = "unassign" /\ Served
        /\ ~InSeq(last.args.user, last.pre[last.args.id].assignees)) =>
        /\ ~last.result.isError
        /\ tasks[last.args.id].assignees = last.pre[last.args.id].assignees

\* C9 witness: a second successful assign of the same user directly after
\* the first, on a task that has another assignee too.
C9_Witness ==
  /\ last.tool = "assign" /\ ~last.result.isError
  /\ last.before.tool = "assign" /\ last.before.args = last.args
  /\ Len(tasks[last.args.id].assignees) = 2
  /\ Occurrences(tasks[last.args.id].assignees, last.args.user) = 1

MaxSpaces == 2

InitHierarchy ==
  /\ DEFAULT_TEAM \in DefaultTeams
  /\ tasks = [id \in TaskIds |-> InitialTask]
  /\ spaces \in {q \in UNION {[1..n -> SpaceIds] : n \in 0..MaxSpaces} :
                    \A i, j \in 1..Len(q) : i # j => q[i] # q[j]}
  /\ last = NoInvocation
  /\ hier = HierIdle

NextHierarchy == Hierarchy \/ Respond

SpecHierarchy == InitHierarchy /\ [][NextHierarchy]_vars

InitSearch ==
  /\ DEFAULT_TEAM = Str(<<"T1">>)
  /\ tasks \in {[id \in TaskIds |-> [InitialTask EXCEPT !.due = d]] : d \in {Null, Num(0), Num(5)}}
  /\ spaces = <<>>
  /\ last = NoInvocation
  /\ hier = HierIdle

NextSearch == Search \/ Task

SpecSearch == InitSearch /\ [][NextSearch]_vars

InitTeam ==
  /\ DEFAULT_TEAM \in DefaultTeams
  /\ tasks = [id \in TaskIds |-> InitialTask]
  /\ spaces \in {<<>>, << <<"s2">> >>}
  /\ last = NoInvocation
  /\ hier = HierIdle

NextTeam == SearchByTeam \/ Hierarchy \/ Respond

SpecTeam == InitTeam /\ [][NextTeam]_vars

(***************************************************************************)
(* Claims about hierarchy                                                  *)
(***************************************************************************)
FailedCalls == {k \in DOMAIN hier.calls : hier.calls[k].state = "fail"}

\* C1: once any upstream call of a hierarchy invocation has failed, the
\* invocation has failed with the error of a failed call and carries no
\* payload: no partial hierarchy, no spaces array.
C1_AllOrNothing ==
  FailedCalls # {} =>
    /\ hier.pc = "done"
    /\ hier.result.isError
    /\ hier.result.data = Undefined
    /\ hier.result.message \in {hier.calls[k].error : k \in FailedCalls}

\* the folder call of the second space failed after every other call succeeded
C1_Witness ==
  /\ Len(hier.found) = 2
  /\ <<"folder", 2>> \in FailedCalls
  /\ \A k \in (DOMAIN hier.calls) \ {<<"folder", 2>>} : hier.calls[k].state = "ok"
  /\ hier.result.isError

IsUnit(out, id) == Get(out, "id") = Str(id) /\ Get(out, "name") = NameOf(id)

AreUnits(outs, ids) == Len(outs) = Len(ids) /\ \A j \in 1..Len(ids) : IsUnit(outs[j], ids[j])

IsSpace(out, s) ==
  /\ IsUnit(out, s)
  /\ AreUnits(out.v.lists.v, ListsData(s))
  /\ Len(out.v.folders.v) = Len(FoldersData(s))
  /\ \A j \in 1..Len(FoldersData(s)) :
        /\ IsUnit(out.v.folders.v[j], FoldersData(s)[j].id)
        /\ AreUnits(out.v.folders.v[j].v.lists.v, FoldersData(s)[j].lists)

\* C3: a successful hierarchy lists the spaces in the order the spaces
\* listing gave them, each with the folders and the folderless lists of that
\* same space, whatever the order in which the calls completed.
C3_SpaceOrderAndPairing ==
  (hier.pc = "done" /\ ~hier.result.isError) =>
    LET out == hier.result.data.v.spaces.v
    IN /\ Len(out) = Len(spaces)
       /\ \A i \in 1..Len(spaces) : IsSpace(out[i], spaces[i])

\* two spaces, the second one's calls completed before the first one's
C3_Witness ==
  /\ hier.pc = "done" /\ ~hier.result.isError
  /\ Len(spaces) = 2
  /\ hier.settled[1].idx = 2
  /\ IsSpace(hier.result.data.v.spaces.v[2], spaces[2])

(***************************************************************************)
(* Claims about the team                                                   *)
(***************************************************************************)
UsesTeam(path, t) ==
  /\ Len(path) >= 3 + Len(t)
  /\ SubSeq(path, 1, 3 + Len(t)) = <<"/", "team", "/">> \o t
  /\ Len(path) > 3 + Len(t) => path[4 + Len(t)] = "/"

SearchResolves(present, want) ==
  IF present THEN Len(last.reqs) = 1 /\ UsesTeam(last.reqs[1].path, want.v)
  ELSE last.reqs = <<>> /\ last.result = Thrown(TeamRequired)

HierarchyResolves(present, want) ==
  IF present THEN Len(hier.reqs) >= 2 /\ \A j \in 1..2 : UsesTeam(hier.reqs[j].req.path, want.v)
  ELSE hier.reqs = <<>> /\ hier.pc = "done" /\ hier.result = Thrown(TeamRequired)

AsSupplied(team) == IF team # Undefined THEN team ELSE DEFAULT_TEAM

NonEmpty(team) == IF team \notin {Undefined, Str(<<>>)} THEN team ELSE DEFAULT_TEAM

\* C2 as stated: whatever team the caller supplies is the one queried, the
\* default is queried when the caller supplies none, and with neither the
\* invocation fails without an upstream call.
C2_TeamAsSupplied ==
  /\ last.tool = "search" =>
        SearchResolves(AsSupplied(last.args.team) # Undefined, AsSupplied(last.args.team))
  /\ hier.pc # "idle" =>
        HierarchyResolves(AsSupplied(hier.team) # Undefined, AsSupplied(hier.team))

\* C2: in search and in hierarchy a non-empty team of the caller is the one
\* queried, the default is queried when the caller supplies none or an empty
\* one, and when that leaves no non-empty team the invocation fails with
\* "team required" without an upstream call.
C2_TeamResolution ==
  /\ last.tool = "search" =>
        SearchResolves(NonEmpty(last.args.team) \notin {Undefined, Str(<<>>)},
                       NonEmpty(last.args.team))
  /\ hier.pc # "idle" =>
        HierarchyResolves(NonEmpty(hier.team) \notin {Undefined, Str(<<>>)}, NonEmpty(hier.team))

\* with a default set, both tools were invoked with another team and queried it
C2_Witness ==
  /\ DEFAULT_TEAM = Str(<<"T1">>)
  /\ last.tool = "search" /\ last.args.team = Str(<<"T2">>)
  /\ UsesTeam(last.reqs[1].path, <<"T2">>)
  /\ hier.pc # "idle" /\ hier.team = Str(<<"T2">>)
  /\ UsesTeam(hier.reqs[2].req.path, <<"T2">>)

(***************************************************************************)
(* Claims about search and the due date                                    *)
(***************************************************************************)
\* the tasks of the upstream answer to the search, in its order
Answered ==
  IF "tasks" \in DOMAIN last.resps[1].json.v THEN last.resps[1].json.v.tasks.v ELSE <<>>

\* the upstream task at position p of an answer of n tasks
MatchAt(n, p) == MatchRec(n + 1 - p)

\* C6: the due of a task in the output of task and of every task in the
\* output of search is present, null when the task has no due date and the
\* number of its due date when it has one.
C6_DueNullOrNumber ==
  /\ (last.tool = "task" /\ ~last.result.isError) =>
        /\ "due" \in DOMAIN last.result.data.v
        /\ last.result.data.v.due = tasks[last.args.id].due
  /\ (last.tool = "search" /\ ~last.result.isError) =>
        \A p \in 1..Len(last.result.data.v) :
          /\ "due" \in DOMAIN last.result.data.v[p].v
          /\ last.result.data.v[p].v.due = MatchAt(Len(Answered), p).due

\* a search whose answer left the due date of a task out and gave 0 for another
C6_Witness ==
  /\ last.tool = "search" /\ ~last.result.isError
  /\ \E p \in 1..Len(Answered) :
        /\ "due_date" \notin DOMAIN Answered[p].v
        /\ last.result.data.v[p].v.due = Null
  /\ \E p \in 1..Len(Answered) :
        /\ "due_date" \in DOMAIN Answered[p].v
        /\ Answered[p].v.due_date = Str(<<"0">>)
        /\ last.result.data.v[p].v.due = Num(0)

\* C7: a successful search returns the first min(20, n) of the n tasks of
\* the upstream answer, in the order of the answer.
C7_FirstTwenty ==
  (last.tool = "search" /\ ~last.result.isError) =>
    LET out == last.result.data.v
    IN /\ Len(out) = IF Len(Answered) < 20 THEN Len(Answered) ELSE 20
       /\ \A p \in 1..Len(out) : out[p].v.id = Answered[p].v.id

\* the answer had more than 20 tasks
C7_Witness ==
  /\ last.tool = "search" /\ ~last.result.isError
  /\ Len(Answered) > 20
  /\ Len(last.result.data.v) = 20
  /\ last.result.data.v[20].v.id = Answered[20].v.id

(***************************************************************************)
(* Claims about the shaping of absent collections                          *)
(***************************************************************************)
InitShape ==
  /\ DEFAULT_TEAM = Str(<<"T1">>)
  /\ tasks = [id \in TaskIds |-> InitialTask]
  /\ spaces \in {<<>>, << <<"s2">> >>, << <<"s3">> >>}
  /\ last = NoInvocation
  /\ hier = HierIdle

NextShape == Task \/ SearchShaped \/ Hierarchy \/ Respond

SpecShape == InitShape /\ [][NextShape]_vars

\* the field k of the output out is an ordered sequence of n elements
IsSequenceOf(out, k, n) == k \in DOMAIN out.v /\ out.v[k].t = "array" /\ Len(out.v[k].v) = n

\* every call of the hierarchy invocation was answered, none with a failure
AllAnswered == hier.pc # "idle" /\ hier.calls # EmptyFcn /\ \A k \in DOMAIN hier.calls : hier.calls[k].state = "ok"

\* hierarchy: spaces, folders, a folder's lists, a space's lists and members
\* are sequences in the output, empty where the service left them out
HierarchyCollections ==
  AllAnswered =>
    /\ hier.pc = "done" /\ ~hier.result.isError
    /\ IsSequenceOf(hier.result.data, "spaces", Len(spaces))
    /\ \A i \in 1..Len(spaces) : IsSpace(hier.result.data.v.spaces.v[i], spaces[i])
    /\ IsSequenceOf(hier.result.data, "members", Len(MembersData(NonEmpty(hier.team).v)))

\* search: the answer's tasks and every task's assignees are sequences
SearchCollections ==
  (last.tool = "search" /\ last.resps[1].status = 200) =>
    /\ ~last.result.isError
    /\ last.result.data.t = "array"
    /\ \A p \in 1..Len(last.result.data.v) :
          IsSequenceOf(last.result.data.v[p], "assignees",
                       Len(MatchAt(Len(Answered), p).assignees))

\* task: the task's tags and assignees are sequences
TaskCollections ==
  (last.tool = "task" /\ last.resps[1].status = 200) =>
    /\ ~last.result.isError
    /\ IsSequenceOf(last.result.data, "tags", Len(tasks[last.args.id].tags))
    /\ IsSequenceOf(last.result.data, "assignees", Len(tasks[last.args.id].assignees))

\* C11 as stated: in the output of hierarchy, search and task every
\* collection the service left out (spaces, folders, a folder's lists, a
\* space's lists, members, a task's tags, a task's assignees) is an empty
\* sequence: the invocation does not fail and the field is not missing.
C11_AbsentCollectionsEmpty == HierarchyCollections /\ SearchCollections /\ TaskCollections

\* a task answered without tags and assignees
SparseTask ==
  /\ last.tool = "task" /\ last.resps[1].status = 200
  /\ {"tags", "assignees"} \cap DOMAIN last.resps[1].json.v = {}

\* what the code does with a task answered without tags and assignees:
\* the invocation succeeds and its output has neither field
TaskCollectionsDropped ==
  SparseTask => /\ ~last.result.isError
                /\ {"tags", "assignees"} \cap DOMAIN last.result.data.v = {}

(***************************************************************************)
(* Claims about the calls of hierarchy                                     *)
(***************************************************************************)
IssuedKeys == {hier.reqs[j].key : j \in 1..Len(hier.reqs)}

IssuedPaths(prefix) ==
  {hier.reqs[j].req.path : j \in {j \in 1..Len(hier.reqs) : hier.reqs[j].key[1] = prefix}}

\* the paths of the folder (or list) calls a hierarchy over the spaces needs
SpacePaths(kind) ==
  {<<"/", "space", "/">> \o spaces[i] \o <<"/", kind>> \o Archived : i \in 1..Len(spaces)}

Stage1Succeeded == \A k \in Stage1Keys : k \in DOMAIN hier.calls /\ hier.calls[k].state = "ok"

\* C12: the team call and the spaces call are issued together; no folder or
\* list call is issued before both have succeeded; a successful hierarchy
\* over n spaces has issued exactly 2 + 2n calls, one folder and one list
\* call per space; over zero spaces it succeeds after the two calls with
\* an empty spaces sequence and the members.
C12_JoinThenFanOut ==
  /\ hier.reqs # <<>> =>
        /\ Len(hier.reqs) >= 2
        /\ {hier.reqs[1].key, hier.reqs[2].key} = Stage1Keys
        /\ \A j \in 1..Len(hier.reqs) : hier.reqs[j].req.method = "GET"
  /\ hier.pc = "stage1" => IssuedKeys = Stage1Keys
  /\ IssuedKeys # Stage1Keys /\ hier.reqs # <<>> => Stage1Succeeded
  /\ (hier.pc = "done" /\ ~hier.result.isError) =>
        /\ Len(hier.reqs) = 2 + 2 * Len(spaces)
        /\ Cardinality(IssuedKeys) = Len(hier.reqs)
        /\ IssuedPaths("folder") = SpacePaths("folder")
        /\ IssuedPaths("list") = SpacePaths("list")
  /\ (Stage1Succeeded /\ spaces = <<>>) =>
        /\ hier.pc = "done" /\ ~hier.result.isError
        /\ Len(hier.reqs) = 2
        /\ hier.result.data.v.spaces = Arr(<<>>)
        /\ IsSequenceOf(hier.result.data, "members", Len(MembersData(NonEmpty(hier.team).v)))

\* a successful hierarchy over two spaces, after six calls
C12_Witness ==
  /\ hier.pc = "done" /\ ~hier.result.isError
  /\ Len(spaces) = 2
  /\ Len(hier.reqs) = 6
  /\ Stage1Succeeded

====
